---- MODULE Spec2Model ----
(***************************************************************************)
(* The wallet's transaction-history slice (txresults): the thunk           *)
(* getTransactionsByAddress, its three batched fetches, and the reducers   *)
(* of txSlice that own the observable state                                *)
(* {loading, error, latestTx, recentAddresses}.                            *)
(*                                                                         *)
(* Encoding of JavaScript values:                                          *)
(*   - an optional value is None (undefined / key absent) or Some(x);      *)
(*   - `error: false` is the empty set, a populated error the singleton    *)
(*     of its descriptor;                                                  *)
(*   - arrays are sequences; indices are 1-based, "not found" is 0.        *)
(***************************************************************************)
EXTENDS Integers, Sequences, FiniteSets

\* Bounds of the model.
MaxRefs == 3        \* longest reference list the node serves (PipeSpec)
MaxRaceRefs == 1    \* longest reference list the node serves (Spec)
MaxCycles == 2      \* thunk instances dispatched in one behaviour (Spec)
MaxDust == 12       \* largest of the small balances formatted (CoinSpec)
MaxInputLen == 4    \* longest text handed to Coin.fromInput (CoinSpec)
MaxReceiptRefs == 2 \* longest reference list the node serves (ReceiptSpec)

None == <<>>
Some(x) == <<x>>

\* JavaScript truthiness of an optional string / an optional number.
TruthyStr(o) == o # None /\ o[1] # ""
TruthyNum(o) == o # None /\ o[1] # 0

\* `a ?? b` on optional values.
Coalesce(a, b) == IF a # None THEN a ELSE b

\* `a || b` for an optional number a and a number b.
OrElse(a, b) == IF TruthyNum(a) THEN a[1] ELSE b

(***************************************************************************)
(* The ledger node's content.  A digest identifies a transaction, so the   *)
(* effect a digest resolves to is fixed; what varies per fetch is which    *)
(* effects come back and in which order.                                   *)
(***************************************************************************)
Digests == {"d1", "d2", "d3", "d4", "d5", "d6", "d7", "d8"}
\* The transactions a node holds: a ledger with irregular payloads, a
\* ledger of single-operation transactions of every kind, and a short ledger
\* for the runs with several thunk instances.
MixedLedger == {"d1", "d2", "d3", "d4"}
StatusLedger == {"d1", "d3", "d7"}
ReceiptLedger == {"d1", "d2", "d5", "d8"}
RaceLedger == {"d1", "d2", "d4"}
KindsLedger == {"d1", "d2", "d5", "d6"}
Seqs == 1..3

TransferSuiOp(to, amt) ==
    [kind |-> "TransferSui", recipient |-> Some(to), amount |-> Some(amt),
     objectId |-> None, function |-> None]
TransferObjectOp(to, id) ==
    [kind |-> "TransferObject", recipient |-> Some(to), amount |-> None,
     objectId |-> Some(id), function |-> None]
CallOp(fn) ==
    [kind |-> "Call", recipient |-> None, amount |-> None,
     objectId |-> None, function |-> Some(fn)]
PublishOp ==
    [kind |-> "Publish", recipient |-> None, amount |-> None,
     objectId |-> None, function |-> None]

\* d1: one TransferSui, whose effect created a coin object;
\* d2: one Move call that minted an object;
\* d3: a batch of two operations;  d4: a payload with no operation;
\* d5: one TransferObject;  d6: one Move call that created nothing;
\* d7: one TransferSui whose execution failed;  d8: one Publish.
Effect(d) ==
    CASE d = "d1" ->
           [certificate |-> [transactionDigest |-> d,
                             data |-> [sender |-> "a1",
                                       transactions |-> <<TransferSuiOp("a2", 5)>>]],
            effects |-> [status |-> [status |-> "success", error |-> None],
                         gasUsed |-> 1, created |-> Some(<<"o2">>)],
            timestamp_ms |-> Some(10)]
      [] d = "d2" ->
           [certificate |-> [transactionDigest |-> d,
                             data |-> [sender |-> "a2",
                                       transactions |-> <<CallOp("mint_nft")>>]],
            effects |-> [status |-> [status |-> "success", error |-> None],
                         gasUsed |-> 2, created |-> Some(<<"o1">>)],
            timestamp_ms |-> None]
      [] d = "d3" ->
           [certificate |-> [transactionDigest |-> d,
                             data |-> [sender |-> "a1",
                                       transactions |-> <<TransferSuiOp("a2", 1),
                                                          TransferSuiOp("a2", 2)>>]],
            effects |-> [status |-> [status |-> "success", error |-> None],
                         gasUsed |-> 3, created |-> None],
            timestamp_ms |-> None]
      [] d = "d5" ->
           [certificate |-> [transactionDigest |-> d,
                             data |-> [sender |-> "a1",
                                       transactions |-> <<TransferObjectOp("a2", "o1")>>]],
            effects |-> [status |-> [status |-> "success", error |-> None],
                         gasUsed |-> 2, created |-> None],
            timestamp_ms |-> None]
      [] d = "d6" ->
           [certificate |-> [transactionDigest |-> d,
                             data |-> [sender |-> "a1",
                                       transactions |-> <<CallOp("swap")>>]],
            effects |-> [status |-> [status |-> "success", error |-> None],
                         gasUsed |-> 4, created |-> None],
            timestamp_ms |-> None]
      [] d = "d7" ->
           [certificate |-> [transactionDigest |-> d,
                             data |-> [sender |-> "a1",
                                       transactions |-> <<TransferSuiOp("a2", 7)>>]],
            effects |-> [status |-> [status |-> "failure",
                                     error |-> Some("InsufficientGas")],
                         gasUsed |-> 3, created |-> None],
            timestamp_ms |-> Some(20)]
      [] d = "d8" ->
           [certificate |-> [transactionDigest |-> d,
                             data |-> [sender |-> "a1",
                                       transactions |-> <<PublishOp>>]],
            effects |-> [status |-> [status |-> "success", error |-> None],
                         gasUsed |-> 5, created |-> Some(<<"o3">>)],
            timestamp_ms |-> None]
      [] OTHER ->
           [certificate |-> [transactionDigest |-> d,
                             data |-> [sender |-> "a1",
                                       transactions |-> <<>>]],
            effects |-> [status |-> [status |-> "failure", error |-> Some("aborted")],
                         gasUsed |-> 1, created |-> None],
            timestamp_ms |-> None]

\* Objects the node can return: o1 an NFT, o2 a SUI coin.
Object(id) ==
    IF id = "o1"
    THEN [reference |-> [objectId |-> id],
          data |-> [type |-> [wrapper |-> "0x2::devnet_nft::DevNetNFT", arg |-> None],
                    fields |-> [description |-> Some("An NFT"), name |-> Some("nft"),
                                url |-> Some("ipfs://x"), balance |-> None]]]
    ELSE [reference |-> [objectId |-> id],
          data |-> [type |-> [wrapper |-> "0x2::coin::Coin",
                              arg |-> Some([package |-> "0x2", module |-> "sui",
                                            name |-> "SUI"])],
                    fields |-> [description |-> None, name |-> None,
                                url |-> None, balance |-> Some(100)]]]

\* All sequences over S of length at most n.
SeqsUpTo(S, n) == UNION {[1..k -> S] : k \in 0..n}

\* A reference is <<sequenceNumber, digest>>; the list may hold null items,
\* which the thunk filters out.
NullRef == <<>>
Refs(held) == Seqs \X held

\* Reference lists the node serves: a sequence number names one transaction
\* (two references with the same sequence number carry the same digest),
\* while one digest may be listed several times, under one or several
\* sequence numbers.
RefListsUpTo(held, n) ==
    {l \in SeqsUpTo(Refs(held) \cup {NullRef}, n) :
        \A i, j \in DOMAIN l :
            (l[i] # NullRef /\ l[j] # NullRef /\ l[i][1] = l[j][1])
                => l[i][2] = l[j][2]}

\* Object batches: the fulfilled payload of batchFetchObject (an array), or
\* None for the payload of its rejected action.
ObjectBatches ==
    {None} \cup
    {Some([i \in DOMAIN ids |-> Object(ids[i])]) :
        ids \in {<<>>, <<"o1">>, <<"o2">>, <<"o1", "o2">>}}

\* Error descriptors as the rejected action carries them (code, name, message).
NetworkError == [code |-> Some("ECONNRESET"), name |-> Some("Error"),
                 message |-> Some("fetch failed")]
NotIterableError == [code |-> None, name |-> Some("TypeError"),
                     message |-> Some("undefined is not iterable")]
NoObjectError == [code |-> None, name |-> Some("TypeError"),
                  message |-> Some("Cannot convert undefined or null to object")]

(***************************************************************************)
(* Pure functions of the slice.                                            *)
(***************************************************************************)

\* Array.prototype.indexOf, 1-based; 0 when the value does not occur.
indexOf(self, value) ==
    IF \E i \in DOMAIN self : self[i] = value
    THEN CHOOSE i \in DOMAIN self :
             self[i] = value /\ \A j \in 1..(i - 1) : self[j] # value
    ELSE 0

\* self.filter((value, index, self) => self.indexOf(value) === index)
RECURSIVE filterFirstIndex(_, _)
filterFirstIndex(self, index) ==
    IF index > Len(self) THEN <<>>
    ELSE (IF indexOf(self, self[index]) = index THEN <<self[index]>> ELSE <<>>)
         \o filterFirstIndex(self, index + 1)

\* Variant: a value is dropped only when it repeats the item just before it.
deduplicateAdjacent(results) ==
    IF results = None THEN <<>>
    ELSE LET self == [i \in DOMAIN results[1] |-> results[1][i][2]]
         IN SelectSeq([i \in DOMAIN self |->
                          IF i > 1 /\ self[i - 1] = self[i] THEN "" ELSE self[i]],
                      LAMBDA v : v # "")

\* Variant: every digest is kept.
deduplicateNothing(results) ==
    IF results = None THEN <<>>
    ELSE [i \in DOMAIN results[1] |-> results[1][i][2]]

\* deduplicate(results): the digests of the references, first occurrences only;
\* [] for an undefined argument.
deduplicate(results) ==
    IF results = None THEN <<>>
    ELSE filterFirstIndex([i \in DOMAIN results[1] |-> results[1][i][2]], 1)

\* getCreatedObjectID(txEffects): the first created object's id, if any.
getCreatedObjectID(txEffects) ==
    IF txEffects.created # None
    THEN (IF Len(txEffects.created[1]) > 0
          THEN Some(txEffects.created[1][1]) ELSE None)
    ELSE None

\* notEmpty(value): value !== null && value !== undefined.
notEmpty(o) == o # None

(***************************************************************************)
(* Accessors of the SDK the thunk calls.  An operation of a transaction is *)
(* an object with one key, its kind; `txn` below is optional because       *)
(* txns[0] of an empty list is undefined.                                  *)
(***************************************************************************)
getTransactionDigest(certificate) == certificate.transactionDigest
getTransactions(certificate) == certificate.data.transactions
getExecutionStatusType(txEff) == txEff.effects.status.status
getExecutionStatusError(txEff) == txEff.effects.status.error
getTotalGasUsed(txEff) == txEff.effects.gasUsed
\* Object.keys(txn)[0]: throws a TypeError for an undefined txn.
getTransactionKindName(txn) ==
    IF txn = None THEN [tag |-> "throw", error |-> NoObjectError]
    ELSE [tag |-> "value", value |-> txn[1].kind]
getTransferSuiTransaction(txn) ==
    IF txn[1].kind = "TransferSui" THEN txn ELSE None
getTransferObjectTransaction(txn) ==
    IF txn[1].kind = "TransferObject" THEN txn ELSE None
getMoveCallTransaction(txn) ==
    IF txn[1].kind = "Call" THEN txn ELSE None

\* `Call (${moveCallTxn?.function?.replace(/_/g, ' ')})`
callFunctionName(moveCallTxn) ==
    IF moveCallTxn = None \/ moveCallTxn[1].function = None THEN "Call (undefined)"
    ELSE CASE moveCallTxn[1].function[1] = "mint_nft" -> "Call (mint nft)"
           [] OTHER -> "Call (" \o moveCallTxn[1].function[1] \o ")"

(***************************************************************************)
(* The reconciliation of one effects batch (the .then callback).           *)
(***************************************************************************)

\* transactions.filter((transactionId) => transactionId[1] === digest)
matching(transactions, txEff) ==
    SelectSeq(transactions,
              LAMBDA transactionId :
                  transactionId[2] = getTransactionDigest(txEff.certificate))

\* Variant: the last matching reference is taken.
destructureLast(matches) ==
    IF Len(matches) = 0 THEN [tag |-> "throw", error |-> NotIterableError]
    ELSE [tag |-> "value", value |-> matches[Len(matches)]]

\* Variant: an effect no reference matches is skipped like a null result.
destructureOrSkip(matches) ==
    IF Len(matches) = 0 THEN [tag |-> "null"]
    ELSE [tag |-> "value", value |-> matches[1]]

\* const [seq, digest] = matches[0]: destructuring undefined throws a
\* TypeError when no reference carries the effect's digest.
destructureFirst(matches) ==
    IF Len(matches) = 0 THEN [tag |-> "throw", error |-> NotIterableError]
    ELSE [tag |-> "value", value |-> matches[1]]

\* Variant: the length test is off by one.
isMultiOperationOffByOne(txns) == Len(txns) > 2

\* if (txns.length > 1) return null;
isMultiOperation(txns) == Len(txns) > 1

\* The callback of txEffs.map: an entry, null for a multi-operation
\* transaction, or a thrown TypeError (nothing in the callback catches what
\* the destructuring or the accessors throw).
mapTxEff(txEff, transactions, address) ==
    LET ref == destructureFirst(matching(transactions, txEff))
    IN
    IF ref.tag # "value" THEN ref
    ELSE
    LET seq == ref.value[1]
        digest == ref.value[2]
        res == txEff.certificate
        txns == getTransactions(res)
    IN
    IF isMultiOperation(txns) THEN [tag |-> "null"]
    ELSE
    LET txn == IF Len(txns) = 0 THEN None ELSE Some(txns[1])
        txKind == getTransactionKindName(txn)
    IN
    IF txKind.tag = "throw" THEN txKind
    ELSE
    LET transferSui == getTransferSuiTransaction(txn)
        txTransferObject == getTransferObjectTransaction(txn)
        recipient == Coalesce(IF transferSui # None THEN transferSui[1].recipient
                              ELSE None,
                              IF txTransferObject # None
                              THEN txTransferObject[1].recipient ELSE None)
        moveCallTxn == getMoveCallTransaction(txn)
        callObjectId == getCreatedObjectID(txEff.effects)
    IN
    [tag |-> "entry",
     entry |->
       [seq |-> seq,
        txId |-> digest,
        status |-> getExecutionStatusType(txEff),
        txGas |-> getTotalGasUsed(txEff),
        kind |-> txKind.value,
        callFunctionName |-> callFunctionName(moveCallTxn),
        from |-> res.data.sender,
        objectId |-> IF txTransferObject # None \/ TruthyStr(callObjectId)
                     THEN Coalesce(IF txTransferObject # None
                                   THEN txTransferObject[1].objectId ELSE None,
                                   callObjectId)
                     ELSE None,
        error |-> getExecutionStatusError(txEff),
        timestampMs |-> txEff.timestamp_ms,
        isSender |-> (res.data.sender = address),
        amount |-> IF transferSui # None /\ TruthyNum(transferSui[1].amount)
                   THEN transferSui[1].amount ELSE None,
        to |-> IF TruthyStr(recipient) THEN recipient ELSE None,
        description |-> None, name |-> None, url |-> None,
        balance |-> None, coinSymbol |-> None]]

\* Variant: no comparison, every entry goes to the front.
insertAtFront(sorted, e) == <<e>> \o sorted

\* Array.prototype.sort with (a, b) => b.seq - a.seq: stable, descending.
RECURSIVE insertBySeq(_, _)
insertBySeq(sorted, e) ==
    IF sorted = <<>> THEN <<e>>
    ELSE IF Head(sorted).seq >= e.seq
         THEN <<Head(sorted)>> \o insertBySeq(Tail(sorted), e)
         ELSE <<e>> \o sorted

\* Variant: the entries keep the order of the batch.
sortOmitted(entries) == entries

RECURSIVE sortBySeqDesc(_)
sortBySeqDesc(entries) ==
    IF entries = <<>> THEN <<>>
    ELSE insertBySeq(sortBySeqDesc(SubSeq(entries, 1, Len(entries) - 1)),
                     entries[Len(entries)])

\* Variant: the filter also removes the entries of failed transactions.
reconcileRemovingFailed(batch, transactions, address) ==
    LET mapped == [i \in DOMAIN batch |-> mapTxEff(batch[i], transactions, address)]
        thrown == {i \in DOMAIN mapped : mapped[i].tag = "throw"}
    IN
    IF thrown # {}
    THEN [tag |-> "throw",
          error |-> mapped[CHOOSE i \in thrown : \A j \in thrown : i <= j].error]
    ELSE LET kept == SelectSeq(mapped,
                         LAMBDA r : r.tag = "entry" /\ r.entry.status = "success")
         IN [tag |-> "value",
             value |-> sortBySeqDesc([i \in DOMAIN kept |-> kept[i].entry])]

\* txEffs.map(...).filter(notEmpty).sort(...): the sorted entries, or the
\* error of the first callback that throws.
reconcile(batch, transactions, address) ==
    LET mapped == [i \in DOMAIN batch |-> mapTxEff(batch[i], transactions, address)]
        thrown == {i \in DOMAIN mapped : mapped[i].tag = "throw"}
    IN
    IF thrown # {}
    THEN [tag |-> "throw",
          error |-> mapped[CHOOSE i \in thrown : \A j \in thrown : i <= j].error]
    ELSE LET kept == SelectSeq(mapped, LAMBDA r : r.tag = "entry")
         IN [tag |-> "value",
             value |-> sortBySeqDesc([i \in DOMAIN kept |-> kept[i].entry])]

\* [...new Set(items)]: first occurrences, in order.
uniq(items) == filterFirstIndex(items, 1)

\* Variant: the ids are not passed through a Set.
objectIDsWithRepeats(resp) ==
    LET ids == SelectSeq([i \in DOMAIN resp |-> resp[i].objectId], notEmpty)
    IN [i \in DOMAIN ids |-> ids[i][1]]

\* The ids handed to batchFetchObject.
objectIDs(resp) ==
    LET ids == SelectSeq([i \in DOMAIN resp |-> resp[i].objectId], notEmpty)
    IN uniq([i \in DOMAIN ids |-> ids[i][1]])

\* Coin.getCoinTypeArg / Coin.getCoinSymbol on the object's type.
getCoinTypeArg(data) ==
    IF data.type.wrapper = "0x2::coin::Coin" THEN data.type.arg ELSE None
getCoinSymbol(coinTypeArg) == coinTypeArg.name

\* Variant: the balance of the matching object also replaces the amount.
enrichOverwritingAmount(itm, txObjects) ==
    LET found == IF txObjects # None /\ TruthyStr(itm.objectId)
                 THEN SelectSeq(txObjects[1],
                          LAMBDA obj : obj.reference.objectId = itm.objectId[1])
                 ELSE <<>>
    IN
    IF Len(found) = 0 THEN itm
    ELSE LET objectTxObj == found[1]
             coinType == getCoinTypeArg(objectTxObj.data)
         IN [itm EXCEPT !.description = objectTxObj.data.fields.description,
                        !.name = objectTxObj.data.fields.name,
                        !.url = objectTxObj.data.fields.url,
                        !.balance = objectTxObj.data.fields.balance,
                        !.amount = objectTxObj.data.fields.balance,
                        !.coinSymbol = IF coinType # None
                                       THEN Some(getCoinSymbol(coinType[1]))
                                       ELSE None]

\* Variant: the first object of the batch is merged into every entry.
enrichWithFirst(itm, txObjects) ==
    IF txObjects = None \/ Len(txObjects[1]) = 0 THEN itm
    ELSE LET objectTxObj == txObjects[1][1]
         IN [itm EXCEPT !.description = objectTxObj.data.fields.description,
                        !.name = objectTxObj.data.fields.name,
                        !.url = objectTxObj.data.fields.url,
                        !.balance = objectTxObj.data.fields.balance]

\* resp.map((itm) => ...): merge the matching object's fields into an entry.
enrichEntry(itm, txObjects) ==
    LET found == IF txObjects # None /\ TruthyStr(itm.objectId)
                 THEN SelectSeq(txObjects[1],
                          LAMBDA obj : obj.reference.objectId = itm.objectId[1])
                 ELSE <<>>
    IN
    IF Len(found) = 0 THEN itm
    ELSE LET objectTxObj == found[1]
             coinType == getCoinTypeArg(objectTxObj.data)
         IN [itm EXCEPT !.description = objectTxObj.data.fields.description,
                        !.name = objectTxObj.data.fields.name,
                        !.url = objectTxObj.data.fields.url,
                        !.balance = objectTxObj.data.fields.balance,
                        !.coinSymbol = IF coinType # None
                                       THEN Some(getCoinSymbol(coinType[1]))
                                       ELSE None]

enrich(resp, txObjects) == [i \in DOMAIN resp |-> enrichEntry(resp[i], txObjects)]

(***************************************************************************)
(* The class Coin.  A string that is compared literally is a sequence of   *)
(* characters; a number that need not be an integer is a reduced fraction  *)
(* [num, den] with den > 0 (the doubles of the code are exact on the       *)
(* inputs used here: integers below 2^53 and halves and quarters).         *)
(***************************************************************************)
COIN_TYPE == "0x2::coin::Coin"
SUI_TYPE_ARG == [package |-> "0x2", module |-> "sui", name |-> "SUI"]
SuiDenomination == 1000000000

\* COIN_DENOMINATIONS[coinArgType]: undefined for a type not in the table.
COIN_DENOMINATIONS(coinArgType) ==
    IF coinArgType = SUI_TYPE_ARG THEN Some(SuiDenomination) ELSE None

RECURSIVE GCD(_, _)
GCD(a, b) == IF b = 0 THEN a ELSE GCD(b, a % b)
Abs(n) == IF n < 0 THEN -n ELSE n

\* The number n / d, d > 0.
Ratio(n, d) ==
    LET g == GCD(Abs(n), d) IN [num |-> n \div g, den |-> d \div g]

\* value < 1e-8, i.e. num * 10^8 < den.
InverseOfTiny == 100000000
LessThanTiny(value) ==
    value.num < (value.den + InverseOfTiny - 1) \div InverseOfTiny

\* The characters of '- -'.
Hyphen == 45
Space == 32
ForcedFormatValue == <<Hyphen, Space, Hyphen>>

\* Coin.isCoin(data): the type starts with 0x2::coin::Coin.
isCoin(data) == data.type.wrapper = COIN_TYPE

\* new BN(number, 10) for a string of decimal digits; 0 for undefined.
DigitValue(ch) ==
    CASE ch = "0" -> 0 [] ch = "1" -> 1 [] ch = "2" -> 2 [] ch = "3" -> 3
      [] ch = "4" -> 4 [] ch = "5" -> 5 [] ch = "6" -> 6 [] ch = "7" -> 7
      [] ch = "8" -> 8 [] ch = "9" -> 9
RECURSIVE DecimalValue(_)
DecimalValue(digits) ==
    IF digits = <<>> THEN 0
    ELSE 10 * DecimalValue(SubSeq(digits, 1, Len(digits) - 1))
         + DigitValue(digits[Len(digits)])
BN(number) == IF number = None THEN 0 ELSE DecimalValue(number[1])

\* Variant: the balance field is read whatever the type of the object.
getBalanceUnchecked(data) ==
    [tag |-> "value", value |-> Some(BN(data.fields.balance))]

\* Coin.getBalance(data): undefined for an object that is not a coin.
getBalance(data) ==
    IF ~isCoin(data) THEN [tag |-> "value", value |-> None]
    ELSE [tag |-> "value", value |-> Some(BN(data.fields.balance))]

\* Variant: a balance equal to the denomination is still formatted as small.
getFormatDataInclusive(balance, coinArgType, mode) ==
    LET denomination == OrElse(COIN_DENOMINATIONS(coinArgType), 1)
        adjValue == Ratio(balance, denomination)
    IN [value |-> adjValue,
        symbol |-> getCoinSymbol(coinArgType),
        formatOptions |->
            IF mode = "accurate"
            THEN [maximumFractionDigits |-> Some(20), notation |-> None]
            ELSE IF balance <= denomination
                 THEN [maximumFractionDigits |-> Some(8), notation |-> None]
                 ELSE [maximumFractionDigits |-> Some(3),
                       notation |-> Some("compact")],
        forcedFormatValue |->
            IF mode = "loose" /\ LessThanTiny(adjValue)
            THEN Some(ForcedFormatValue) ELSE None]

\* Variant: the forced value does not depend on the mode.
getFormatDataAlwaysForced(balance, coinArgType, mode) ==
    LET denomination == OrElse(COIN_DENOMINATIONS(coinArgType), 1)
        adjValue == Ratio(balance, denomination)
    IN [value |-> adjValue,
        symbol |-> getCoinSymbol(coinArgType),
        formatOptions |->
            IF mode = "accurate"
            THEN [maximumFractionDigits |-> Some(20), notation |-> None]
            ELSE IF balance < denomination
                 THEN [maximumFractionDigits |-> Some(8), notation |-> None]
                 ELSE [maximumFractionDigits |-> Some(3),
                       notation |-> Some("compact")],
        forcedFormatValue |->
            IF LessThanTiny(adjValue) THEN Some(ForcedFormatValue) ELSE None]

\* Coin.getFormatData(balance, coinArgType, mode)
getFormatData(balance, coinArgType, mode) ==
    LET denomination == OrElse(COIN_DENOMINATIONS(coinArgType), 1)
        adjValue == Ratio(balance, denomination)
    IN [value |-> adjValue,
        symbol |-> getCoinSymbol(coinArgType),
        formatOptions |->
            IF mode = "accurate"
            THEN [maximumFractionDigits |-> Some(20), notation |-> None]
            ELSE IF balance < denomination
                 THEN [maximumFractionDigits |-> Some(8), notation |-> None]
                 ELSE [maximumFractionDigits |-> Some(3),
                       notation |-> Some("compact")],
        forcedFormatValue |->
            IF mode = "loose" /\ LessThanTiny(adjValue)
            THEN Some(ForcedFormatValue) ELSE None]

\* parseFloat(inputValue): an optional sign, digits, an optional point and
\* digits, read from the start of the text as far as they go; NaN when no
\* digit was read.
IsDigit(ch) == ch \in {"0", "1", "2", "3", "4", "5", "6", "7", "8", "9"}
RECURSIVE LeadingDigits(_)
LeadingDigits(text) ==
    IF text # <<>> /\ IsDigit(Head(text))
    THEN <<Head(text)>> \o LeadingDigits(Tail(text))
    ELSE <<>>
RECURSIVE PowerOfTen(_)
PowerOfTen(k) == IF k = 0 THEN 1 ELSE 10 * PowerOfTen(k - 1)
parseFloat(inputValue) ==
    LET signed == inputValue # <<>> /\ Head(inputValue) \in {"-", "+"}
        sign == IF signed /\ Head(inputValue) = "-" THEN -1 ELSE 1
        unsigned == IF signed THEN Tail(inputValue) ELSE inputValue
        whole == LeadingDigits(unsigned)
        rest == SubSeq(unsigned, Len(whole) + 1, Len(unsigned))
        fraction == IF rest # <<>> /\ Head(rest) = "."
                    THEN LeadingDigits(Tail(rest)) ELSE <<>>
    IN IF whole = <<>> /\ fraction = <<>> THEN [nan |-> TRUE]
       ELSE [nan |-> FALSE,
             num |-> sign * (DecimalValue(whole) * PowerOfTen(Len(fraction))
                             + DecimalValue(fraction)),
             den |-> PowerOfTen(Len(fraction))]

\* Math.round(num / den): the nearest integer, a half going up.
MathRound(num, den) == (2 * num + den) \div (2 * den)

\* Coin.fromInput(inputValue, denomination); BigInt(NaN) throws a RangeError.
fromInput(inputValue, denomination) ==
    LET value == parseFloat(inputValue)
    IN IF value.nan THEN [tag |-> "throw", error |-> "RangeError"]
       ELSE [tag |-> "value",
             value |-> MathRound(value.num * denomination, value.den)]

(***************************************************************************)
(* TransactionCard: what the card of one entry shows as its amount.        *)
(***************************************************************************)

\* txn.kind === 'Call' ? 'Call' : txn.isSender ? 'Sent' : 'Received'
transferType(txn) ==
    IF txn.kind = "Call" THEN "Call"
    ELSE IF txn.isSender THEN "Sent" ELSE "Received"

\* Variant: the chain of a Call card ends at the amount.
transferAmountNoGas(txn) ==
    IF transferType(txn) = "Call"
    THEN OrElse(txn.balance, OrElse(txn.amount, 0))
    ELSE OrElse(txn.amount, OrElse(Some(txn.txGas), 0))

\* transferMeta[transferType].amount
transferAmount(txn) ==
    IF transferType(txn) = "Call"
    THEN OrElse(txn.balance, OrElse(txn.amount, OrElse(Some(txn.txGas), 0)))
    ELSE OrElse(txn.amount, OrElse(Some(txn.txGas), 0))

\* No Coin method has been called yet.
NoCall == [op |-> "none"]

(***************************************************************************)
(* ReceiptPage: the title of the receipt overlay.                          *)
(***************************************************************************)

\* Reading a property of undefined.
NoPropertyError == [code |-> None, name |-> Some("TypeError"),
                    message |-> Some("Cannot read properties of undefined")]

\* transfersTxt: the header texts by kind (callMeta || 'Call').
transfersTxt(callMeta) ==
    [Call |-> [sender |-> IF callMeta # "" THEN callMeta ELSE "Call",
               receiver |-> IF callMeta # "" THEN callMeta ELSE "Call"],
     TransferObject |-> [sender |-> "Successfully Sent!",
                         receiver |-> "Successfully Received!"],
     TransferSui |-> [sender |-> "Successfully Sent!",
                      receiver |-> "Successfully Received!"]]

\* txResults.filter((txn) => txn.txId === txDigest)[0]
selectTxnItem(txResults, txDigest) ==
    LET found == SelectSeq(txResults,
                     LAMBDA txn : txDigest # None /\ txn.txId = txDigest[1])
    IN IF found = <<>> THEN None ELSE Some(found[1])

\* kind ? transfersTxt[kind][txnItem.isSender ? 'sender' : 'receiver'] : ''
\* (transfersTxt[kind] is undefined for a kind that is not one of its keys).
headerCopy(txnItem) ==
    LET callMeta == IF txnItem # None /\ TruthyStr(txnItem[1].name)
                       /\ TruthyStr(txnItem[1].url)
                    THEN "Minted Successfully!" ELSE "Move Call"
        kind == IF txnItem = None THEN None ELSE Some(txnItem[1].kind)
    IN
    IF ~TruthyStr(kind) THEN [tag |-> "value", value |-> ""]
    ELSE IF kind[1] \notin DOMAIN transfersTxt(callMeta)
         THEN [tag |-> "throw", error |-> NoPropertyError]
         ELSE [tag |-> "value",
               value |-> transfersTxt(callMeta)[kind[1]]
                             [IF txnItem[1].isSender THEN "sender" ELSE "receiver"]]

\* One render of ReceiptPage: a redirect, the title of the overlay, or the
\* error the render throws.
ReceiptPage(txResults, isLoading, txDigest, transfer) ==
    LET txnItem == selectTxnItem(txResults, txDigest)
        ctaLinks == IF transfer = Some("nft") THEN "/nfts" ELSE "/"
        linkTo == IF TruthyStr(transfer) THEN ctaLinks ELSE "/transactions"
    IN
    IF (~TruthyStr(txDigest) /\ txnItem = None)
         \/ (~isLoading /\ Len(txResults) = 0)
    THEN [tag |-> "navigate", to |-> linkTo]
    ELSE LET header == headerCopy(txnItem)
         IN IF header.tag = "throw" THEN header
            ELSE [tag |-> "title",
                  title |-> IF txnItem # None /\ txnItem[1].status = "success"
                            THEN header.value
                            ELSE IF txnItem # None /\ txnItem[1].status # ""
                                 THEN "Transaction Failed" ELSE ""]

\* The receipt page has not rendered yet.
NoRender == [op |-> "none"]

(***************************************************************************)
(* State.                                                                  *)
(***************************************************************************)
VARIABLES
    loading, error, latestTx, recentAddresses,  \* the slice's state
    address,        \* getState().account.address
    node,           \* the reference list the node serves for the address
    chain,          \* the digests of the transactions the node holds
    pc,             \* per thunk instance: where its payload creator waits
    transactions,   \* per instance: the filtered reference list
    request,        \* per instance: the digests of its effects fetch
    txEffs,         \* per instance: the effects batch it received
    resp,           \* per instance: the reconciled entries
    issued,         \* per instance: the fetches it has issued so far
    awaiting,       \* per instance: the fetches issued and not yet settled
    objectRequests, \* per instance: the id lists it handed to batchFetchObject
    coin,           \* the last call of a Coin method, with its result
    receipt,        \* the last render of ReceiptPage, with its result
    last            \* history: the completion that wrote the slice last

vars == <<loading, error, latestTx, recentAddresses, address, node, chain,
          pc, transactions, request, txEffs, resp, issued, awaiting,
          objectRequests, coin, receipt, last>>
ledger == <<loading, error, latestTx, recentAddresses>>
locals == <<pc, transactions, request, txEffs, resp, issued, awaiting,
           objectRequests>>

\* Thunk instances, numbered in dispatch order.
Cycles == 1..MaxCycles

(***************************************************************************)
(* The reducers of txSlice.                                                *)
(***************************************************************************)

\* Variant: only the recipients are collected.
recentRecipients(payload) ==
    LET kept == SelectSeq([i \in DOMAIN payload |-> payload[i].to], TruthyStr)
    IN uniq([i \in DOMAIN kept |-> kept[i][1]])

\* recentAddresses of a payload: [to, from] per entry, flattened, falsy
\* items removed, duplicates removed.
recentOf(payload) ==
    LET pairs == [i \in 1..(2 * Len(payload)) |->
                     IF i % 2 = 1 THEN payload[(i + 1) \div 2].to
                     ELSE Some(payload[i \div 2].from)]
        kept == SelectSeq(pairs, TruthyStr)
    IN uniq([i \in DOMAIN kept |-> kept[i][1]])

fulfilledReducer(payload) ==
    /\ loading' = FALSE
    /\ error' = {}
    /\ latestTx' = payload
    /\ recentAddresses' = recentOf(payload)

\* Variant: the pending case leaves recentAddresses as they are.
pendingKeepsRecent ==
    /\ loading' = TRUE
    /\ latestTx' = <<>>
    /\ UNCHANGED <<error, recentAddresses>>

pendingReducer ==
    /\ loading' = TRUE
    /\ latestTx' = <<>>
    /\ recentAddresses' = <<>>
    /\ UNCHANGED error

\* Variant: the rejected case leaves the loading flag set.
rejectedKeepsLoading(err) ==
    /\ loading' = TRUE
    /\ error' = {err}
    /\ latestTx' = <<>>
    /\ recentAddresses' = <<>>

rejectedReducer(err) ==
    /\ loading' = FALSE
    /\ error' = {err}
    /\ latestTx' = <<>>
    /\ recentAddresses' = <<>>

(***************************************************************************)
(* The thunk getTransactionsByAddress, one action per point where it is    *)
(* resumed.  A continuation that returns or throws settles the thunk in    *)
(* the same turn, so the fulfilled / rejected reducer is part of the       *)
(* action that resumes it.                                                 *)
(***************************************************************************)

\* What the node may answer to a request: the effects of the requested
\* items (one per item, so a digest requested twice may come back twice), in
\* any order, some possibly missing, and possibly one effect nobody asked for.
Count(s, x) == Cardinality({i \in DOMAIN s : s[i] = x})
ResponsesTo(req, held) ==
    {[i \in DOMAIN ds |-> Effect(ds[i])] :
        ds \in {s \in SeqsUpTo(held, Len(req) + 1) :
                   /\ \A d \in held :
                         Count(s, d) <= IF Count(req, d) > 1
                                        THEN Count(req, d) ELSE 1
                   /\ Cardinality({i \in DOMAIN s : Count(req, s[i]) = 0}) <= 1}}

\* The names of the three batched fetches.
Fetches == {"digests", "effects", "objects"}

\* Instance c issues fetch f and waits for it / the fetch it waits for settles.
issue(c, f) ==
    /\ issued' = [issued EXCEPT ![c] = @ \cup {f}]
    /\ awaiting' = [awaiting EXCEPT ![c] = @ \cup {f}]
settle(c, f) == [awaiting EXCEPT ![c] = @ \ {f}]

\* The thunk settles: its locals are gone; `last` records what it had seen
\* (`failed` names the fetch that rejected, "" when none did).
finish(c, stage, failed, batch, txObjects) ==
    /\ pc' = [pc EXCEPT ![c] = "done"]
    /\ transactions' = [transactions EXCEPT ![c] = <<>>]
    /\ request' = [request EXCEPT ![c] = <<>>]
    /\ txEffs' = [txEffs EXCEPT ![c] = <<>>]
    /\ resp' = [resp EXCEPT ![c] = <<>>]
    /\ issued' = [issued EXCEPT ![c] = {}]
    /\ awaiting' = [awaiting EXCEPT ![c] = {}]
    /\ objectRequests' = [objectRequests EXCEPT ![c] = <<>>]
    /\ last' = [cycle |-> c, stage |-> stage, failed |-> failed,
                transactions |-> transactions[c], request |-> request[c],
                txEffs |-> batch, resp |-> resp[c], txObjects |-> txObjects,
                issued |-> issued[c], objectRequests |-> objectRequests[c]]

\* Variant: the effects fetch is issued together with the digest fetch.
DispatchEager(c) ==
    /\ pc[c] = "idle"
    /\ \A b \in Cycles : b < c => pc[b] # "idle"
    /\ pendingReducer
    /\ IF address = ""
       THEN /\ pc' = [pc EXCEPT ![c] = "Returning"]
            /\ UNCHANGED <<issued, awaiting>>
       ELSE /\ pc' = [pc EXCEPT ![c] = "FetchingDigests"]
            /\ issued' = [issued EXCEPT ![c] = @ \cup {"digests", "effects"}]
            /\ awaiting' = [awaiting EXCEPT ![c] = @ \cup {"digests", "effects"}]
    /\ UNCHANGED <<address, node, chain, coin, receipt, transactions, request,
                   txEffs, resp,
                   objectRequests, last>>

\* Variant: the digest fetch is issued without looking at the address.
DispatchUnguarded(c) ==
    /\ pc[c] = "idle"
    /\ \A b \in Cycles : b < c => pc[b] # "idle"
    /\ pendingReducer
    /\ pc' = [pc EXCEPT ![c] = "FetchingDigests"]
    /\ issue(c, "digests")
    /\ UNCHANGED <<address, node, chain, coin, receipt, transactions, request,
                   txEffs, resp,
                   objectRequests, last>>

\* dispatch(getTransactionsByAddress()): the pending action is reduced, the
\* payload creator reads the address and either returns [] or issues the
\* digest fetch.
Dispatch(c) ==
    /\ pc[c] = "idle"
    /\ \A b \in Cycles : b < c => pc[b] # "idle"
    /\ pendingReducer
    /\ IF address = ""
       THEN /\ pc' = [pc EXCEPT ![c] = "Returning"]
            /\ UNCHANGED <<issued, awaiting>>
       ELSE /\ pc' = [pc EXCEPT ![c] = "FetchingDigests"]
            /\ issue(c, "digests")
    /\ UNCHANGED <<address, node, chain, coin, receipt, transactions, request,
                   txEffs, resp,
                   objectRequests, last>>

\* The early `return []` for an empty address settles the thunk.
ReturnEmpty(c) ==
    /\ pc[c] = "Returning"
    /\ fulfilledReducer(<<>>)
    /\ finish(c, "address", "", <<>>, None)
    /\ UNCHANGED <<address, node, chain, coin, receipt>>

\* Variant: the effects fetch is issued for an empty list too.
DigestsArriveUnguarded(c) ==
    /\ pc[c] = "FetchingDigests"
    /\ LET txs == SelectSeq(node, LAMBDA tx : tx # NullRef)
       IN /\ pc' = [pc EXCEPT ![c] = "FetchingEffects"]
          /\ transactions' = [transactions EXCEPT ![c] = txs]
          /\ request' = [request EXCEPT ![c] = deduplicate(Some(txs))]
          /\ issued' = [issued EXCEPT ![c] = @ \cup {"effects"}]
          /\ awaiting' = [settle(c, "digests") EXCEPT ![c] = @ \cup {"effects"}]
          /\ UNCHANGED <<ledger, txEffs, resp, objectRequests, last>>
    /\ UNCHANGED <<address, node, chain, coin, receipt>>

\* getTransactionsForAddress resolves: filter, then return [] or issue the
\* effects fetch for the deduplicated digests.
DigestsArrive(c) ==
    /\ pc[c] = "FetchingDigests"
    /\ LET txs == SelectSeq(node, LAMBDA tx : tx # NullRef)
       IN IF Len(txs) = 0
          THEN /\ fulfilledReducer(<<>>)
               /\ finish(c, "digests", "", <<>>, None)
          ELSE /\ pc' = [pc EXCEPT ![c] = "FetchingEffects"]
               /\ transactions' = [transactions EXCEPT ![c] = txs]
               /\ request' = [request EXCEPT ![c] = deduplicate(Some(txs))]
               /\ issued' = [issued EXCEPT ![c] = @ \cup {"effects"}]
               /\ awaiting' = [settle(c, "digests") EXCEPT ![c] = @ \cup {"effects"}]
               /\ UNCHANGED <<ledger, txEffs, resp, objectRequests, last>>
    /\ UNCHANGED <<address, node, chain, coin, receipt>>

\* getTransactionsForAddress rejects.
DigestsFail(c) ==
    /\ pc[c] = "FetchingDigests"
    /\ rejectedReducer(NetworkError)
    /\ finish(c, "digests", "digests", <<>>, None)
    /\ UNCHANGED <<address, node, chain, coin, receipt>>

\* getTransactionWithEffectsBatch resolves: reconcile, then issue the object
\* fetch, or reject with what the callback threw.
EffectsArrive(c) ==
    /\ pc[c] = "FetchingEffects"
    /\ \E batch \in ResponsesTo(request[c], chain) :
         LET r == reconcile(batch, transactions[c], address)
         IN IF r.tag = "throw"
            THEN /\ rejectedReducer(r.error)
                 /\ finish(c, "effects", "", batch, None)
            ELSE /\ pc' = [pc EXCEPT ![c] = "FetchingObjects"]
                 /\ txEffs' = [txEffs EXCEPT ![c] = batch]
                 /\ resp' = [resp EXCEPT ![c] = r.value]
                 /\ issued' = [issued EXCEPT ![c] = @ \cup {"objects"}]
                 /\ awaiting' = [settle(c, "effects") EXCEPT ![c] = @ \cup {"objects"}]
                 /\ objectRequests' = [objectRequests EXCEPT
                                           ![c] = Append(@, objectIDs(r.value))]
                 /\ UNCHANGED <<ledger, transactions, request, last>>
    /\ UNCHANGED <<address, node, chain, coin, receipt>>

\* Variant: the rejection of the effects fetch is swallowed and the thunk
\* goes on waiting.
EffectsFailSwallowed(c) ==
    /\ pc[c] = "FetchingEffects"
    /\ pc' = [pc EXCEPT ![c] = "Waiting"]
    /\ awaiting' = settle(c, "effects")
    /\ UNCHANGED <<ledger, transactions, request, txEffs, resp, issued,
                   objectRequests, last>>
    /\ UNCHANGED <<address, node, chain, coin, receipt>>

\* getTransactionWithEffectsBatch rejects.
EffectsFail(c) ==
    /\ pc[c] = "FetchingEffects"
    /\ rejectedReducer(NetworkError)
    /\ finish(c, "effects", "effects", <<>>, None)
    /\ UNCHANGED <<address, node, chain, coin, receipt>>

\* dispatch(batchFetchObject(objectIDs)) settles (its payload is undefined
\* when it was rejected): enrich and return, which fulfils the thunk.
ObjectsArrive(c) ==
    /\ pc[c] = "FetchingObjects"
    /\ \E txObjects \in ObjectBatches :
         /\ fulfilledReducer(enrich(resp[c], txObjects))
         /\ finish(c, "objects", IF txObjects = None THEN "objects" ELSE "",
                   txEffs[c], txObjects)
    /\ UNCHANGED <<address, node, chain, coin, receipt>>

\* initialState of the slice, no thunk dispatched yet.
InitWith(held, n) ==
    /\ loading = TRUE
    /\ latestTx = <<>>
    /\ recentAddresses = <<>>
    /\ error = {}
    /\ address \in {"", "a1"}
    /\ chain = held
    /\ node \in RefListsUpTo(held, n)
    /\ pc = [c \in Cycles |-> "idle"]
    /\ transactions = [c \in Cycles |-> <<>>]
    /\ request = [c \in Cycles |-> <<>>]
    /\ txEffs = [c \in Cycles |-> <<>>]
    /\ resp = [c \in Cycles |-> <<>>]
    /\ issued = [c \in Cycles |-> {}]
    /\ awaiting = [c \in Cycles |-> {}]
    /\ objectRequests = [c \in Cycles |-> <<>>]
    /\ coin = NoCall
    /\ receipt = NoRender
    /\ last = [cycle |-> 0, stage |-> "init", failed |-> "",
               transactions |-> <<>>, request |-> <<>>, txEffs |-> <<>>,
               resp |-> <<>>, txObjects |-> None, issued |-> {},
               objectRequests |-> <<>>]

\* Several thunk instances, dispatched from the pages that show the history,
\* over short reference lists.
Init == InitWith(RaceLedger, MaxRaceRefs)

Next ==
    \E c \in Cycles :
        \/ Dispatch(c)
        \/ ReturnEmpty(c)
        \/ DigestsArrive(c)
        \/ DigestsFail(c)
        \/ EffectsArrive(c)
        \/ EffectsFail(c)
        \/ ObjectsArrive(c)

Spec == Init /\ [][Next]_vars

\* The step that ends a wait of instance c: the response or the error of the
\* fetch it awaits, or the return of the thunk that fetched nothing.
Settle(c) ==
    \/ ReturnEmpty(c)
    \/ DigestsArrive(c)
    \/ DigestsFail(c)
    \/ EffectsArrive(c)
    \/ EffectsFail(c)
    \/ ObjectsArrive(c)

\* The race again, over a transfer and a failed transaction, with every
\* issued fetch eventually answered; nothing makes the page dispatch.
FairLedger == {"d1", "d4"}

InitFair == InitWith(FairLedger, MaxRaceRefs)

FairSpec ==
    InitFair /\ [][Next]_vars /\ \A c \in Cycles : WF_vars(Settle(c))

\* One thunk instance, over every reference list up to MaxRefs.
InitPipe == InitWith(MixedLedger, MaxRefs)

NextPipe ==
    \/ Dispatch(1)
    \/ ReturnEmpty(1)
    \/ DigestsArrive(1)
    \/ DigestsFail(1)
    \/ EffectsArrive(1)
    \/ EffectsFail(1)
    \/ ObjectsArrive(1)

PipeSpec == InitPipe /\ [][NextPipe]_vars

\* One thunk instance, over a ledger of single-operation transactions.
InitKinds == InitWith(KindsLedger, MaxRefs)

KindsSpec == InitKinds /\ [][NextPipe]_vars

\* One thunk instance, over a ledger with a failed transfer beside a
\* successful one and a batch.
InitStatus == InitWith(StatusLedger, MaxRefs)

StatusSpec == InitStatus /\ [][NextPipe]_vars

(***************************************************************************)
(* The receipt page beside one thunk instance.                             *)
(***************************************************************************)

\* The ?txdigest= and ?transfer= parameters of the page's URL.
TxDigestParams == {None} \cup {Some(d) : d \in ReceiptLedger}
TransferParams == {None, Some("nft"), Some("coin")}

\* ReceiptPage renders over the slice's current state.
RenderReceipt ==
    /\ \E txDigest \in TxDigestParams, transfer \in TransferParams :
         receipt' = [op |-> "render", txDigest |-> txDigest,
                     transfer |-> transfer,
                     txnItem |-> selectTxnItem(latestTx, txDigest),
                     result |-> ReceiptPage(latestTx, loading, txDigest, transfer)]
    /\ UNCHANGED <<ledger, locals, address, node, chain, coin, last>>

InitReceipt == InitWith(ReceiptLedger, MaxReceiptRefs)

NextReceipt ==
    \/ NextPipe
    \/ RenderReceipt

ReceiptSpec == InitReceipt /\ [][NextReceipt]_vars

(***************************************************************************)
(* Calls of the Coin methods, on their own: no thunk runs.                 *)
(***************************************************************************)

\* Balances around the two thresholds of getFormatData: dust, and the
\* neighbourhood of the SUI denomination.
Balances ==
    (0..MaxDust) \cup {SuiDenomination \div 2, SuiDenomination - 1,
                       SuiDenomination, SuiDenomination + 1, 2 * SuiDenomination}

\* 0x2::sui::SUI, and two types that are not in COIN_DENOMINATIONS.
CoinArgTypes ==
    {SUI_TYPE_ARG,
     [package |-> "0xabc", module |-> "sui", name |-> "SUI"],
     [package |-> "0xabc", module |-> "usd", name |-> "USD"]}

\* Texts a user can type with these keys, and denominations.
InputChars == {"-", ".", "2", "5"}
InputTexts == SeqsUpTo(InputChars, MaxInputLen)
Denominations == {1, 2}

\* Objects handed to getBalance: SUI coins, an NFT, and an object that is
\* not a coin although it has a balance field.
StoredBalances ==
    {<<"0">>, <<"7">>, <<"1", "0", "0">>,
     <<"1", "2", "3", "4", "5", "6", "7", "8", "9">>}
ObjectData ==
    {[type |-> [wrapper |-> COIN_TYPE, arg |-> Some(SUI_TYPE_ARG)],
      fields |-> [balance |-> Some(b)]] : b \in StoredBalances}
    \cup {[type |-> [wrapper |-> "0x2::devnet_nft::DevNetNFT", arg |-> None],
           fields |-> [balance |-> None]],
          [type |-> [wrapper |-> "0x2::delegation::Delegation", arg |-> None],
           fields |-> [balance |-> Some(<<"5">>)]]}

CallGetFormatData ==
    /\ \E balance \in Balances, coinArgType \in CoinArgTypes,
          mode \in {"accurate", "loose"} :
         coin' = [op |-> "getFormatData", balance |-> balance,
                  coinArgType |-> coinArgType, mode |-> mode,
                  result |-> getFormatData(balance, coinArgType, mode)]
    /\ UNCHANGED <<ledger, locals, address, node, chain, receipt, last>>

CallFromInput ==
    /\ \E inputValue \in InputTexts, denomination \in Denominations :
         coin' = [op |-> "fromInput", inputValue |-> inputValue,
                  denomination |-> denomination,
                  result |-> fromInput(inputValue, denomination)]
    /\ UNCHANGED <<ledger, locals, address, node, chain, receipt, last>>

CallGetBalance ==
    /\ \E data \in ObjectData :
         coin' = [op |-> "getBalance", data |-> data, result |-> getBalance(data)]
    /\ UNCHANGED <<ledger, locals, address, node, chain, receipt, last>>

InitCoin == InitWith(KindsLedger, 0)

NextCoin ==
    \/ CallGetFormatData
    \/ CallFromInput
    \/ CallGetBalance

CoinSpec == InitCoin /\ [][NextCoin]_vars

(***************************************************************************)
(* Steps and phases the properties below speak about.                      *)
(***************************************************************************)

\* Instance c is dispatched / instance c settles, in this step.
DispatchStep(c) == pc[c] = "idle" /\ pc'[c] # "idle"
CompletionStep(c) == pc[c] # "done" /\ pc'[c] = "done"

PhaseLoading == loading = TRUE
PhaseLoaded == loading = FALSE /\ error = {}
PhaseFailed == error # {}

(***************************************************************************)
(* Properties of the state machine, checked under Spec.                    *)
(***************************************************************************)

\* C1: in every reachable state exactly one of the three phases holds:
\* loading; or entries committed with no error; or an error populated.  In
\* particular loading never coexists with a populated error.
C1_ExactlyOnePhase ==
    \/ (PhaseLoading /\ ~PhaseLoaded /\ ~PhaseFailed)
    \/ (~PhaseLoading /\ PhaseLoaded /\ ~PhaseFailed)
    \/ (~PhaseLoading /\ ~PhaseLoaded /\ PhaseFailed)

\* C2: when instance a settles after a later-dispatched instance has already
\* settled and written the state (and nothing was dispatched since), a's
\* fulfilled or rejected action leaves the state as the later one wrote it.
C2_SupersededDiscarded ==
    [][\A a \in Cycles :
          (CompletionStep(a) /\ ~loading /\ last.cycle > a)
              => ledger' = ledger]_vars

\* C3: from a Loaded or a Failed state the next change of the state is the
\* transition to Loading.
C3_TerminalOnlyToLoading ==
    [][~loading => (loading' \/ ledger' = ledger)]_vars

\* C4: the pending transition, from any prior state, leaves entries = [],
\* recentAddresses = [] and error = null.
C4_PendingClears ==
    [][\A c \in Cycles :
          DispatchStep(c)
              => (latestTx' = <<>> /\ recentAddresses' = <<>> /\ error' = {})]_vars

(***************************************************************************)
(* Properties of one reconciliation cycle, checked under PipeSpec.         *)
(***************************************************************************)

digestOf(txEff) == txEff.certificate.transactionDigest
opCount(txEff) == Len(txEff.certificate.data.transactions)

\* The digest occurs in the reference list the node served.
Referenced(d) == \E i \in DOMAIN node : node[i] # NullRef /\ node[i][2] = d
IsOrphan(txEff) == ~Referenced(digestOf(txEff))

\* The sequence number of the first reference that carries digest d.
FirstSeq(d) ==
    LET at == {i \in DOMAIN node : node[i] # NullRef /\ node[i][2] = d}
    IN node[CHOOSE i \in at : \A j \in at : i <= j][1]

\* The state was written by a thunk that ran to the end / that was rejected
\* by what the reconciliation of its batch threw.
Committed == ~loading /\ error = {} /\ last.stage = "objects"
Threw == ~loading /\ last.stage = "effects" /\ last.txEffs # <<>>

\* The node lists some digest twice.
DuplicatedDigest ==
    \E i, j \in DOMAIN node :
        i < j /\ node[i] # NullRef /\ node[j] # NullRef /\ node[i][2] = node[j][2]

\* C5: the committed entry list is sorted strictly descending by seq and no
\* two entries carry the same digest, whatever the reference list (digests
\* listed twice included) and whatever the order of the returned effects.
C5_SortedUniqueDigests ==
    \A i, j \in DOMAIN latestTx :
        i < j => (latestTx[i].seq > latestTx[j].seq
                  /\ latestTx[i].txId # latestTx[j].txId)

\* Two entries committed from a list with a repeated digest, the batch having
\* come back in ascending order.
C5_Witness ==
    /\ Committed /\ DuplicatedDigest /\ Len(latestTx) = 2
    /\ \E i, j \in DOMAIN last.txEffs :
           i < j /\ digestOf(last.txEffs[i]) = latestTx[2].txId
                 /\ digestOf(last.txEffs[j]) = latestTx[1].txId

\* The position of the first occurrence of x in s.
FirstPos(s, x) ==
    LET at == {k \in DOMAIN s : s[k] = x}
    IN CHOOSE k \in at : \A m \in at : k <= m

\* C6: the request of the effects fetch, deduplicate(transactions), holds
\* each digest of the reference list exactly once, in the order of first
\* occurrence, and is no longer than the list; deduplicate(undefined) is [].
C6_DedupeFirstOccurrences ==
    /\ deduplicate(None) = <<>>
    /\ \A c \in Cycles :
         pc[c] = "FetchingEffects" =>
           LET input == [i \in DOMAIN transactions[c] |-> transactions[c][i][2]]
               output == request[c]
           IN /\ \A d \in Digests :
                    Count(output, d) = IF Count(input, d) > 0 THEN 1 ELSE 0
              /\ \A i, j \in DOMAIN output :
                    i < j => FirstPos(input, output[i]) < FirstPos(input, output[j])
              /\ Len(output) <= Len(input)

\* A list d, e, d: the repeated digest is not adjacent to its first occurrence.
C6_Witness ==
    /\ pc[1] = "FetchingEffects"
    /\ Len(transactions[1]) = 3 /\ Len(request[1]) = 2
    /\ transactions[1][1][2] = transactions[1][3][2]

\* C7: a digest listed under several sequence numbers gets one entry, with
\* the sequence number of its first reference in list order: every committed
\* entry carries FirstSeq of its digest, a digest has at most one entry, and
\* exactly one when its single-operation effect came back.
C7_FirstReferenceWins ==
    Committed =>
      \A d \in Digests :
        LET at == {i \in DOMAIN latestTx : latestTx[i].txId = d}
        IN /\ Cardinality(at) <= 1
           /\ \A i \in at : latestTx[i].seq = FirstSeq(d)
           /\ (\E k \in DOMAIN last.txEffs :
                   digestOf(last.txEffs[k]) = d /\ opCount(last.txEffs[k]) = 1)
                 => Cardinality(at) = 1

\* An entry committed for a digest listed under two sequence numbers.
C7_Witness ==
    /\ Committed
    /\ \E i, j \in DOMAIN node :
         /\ i < j /\ node[i] # NullRef /\ node[j] # NullRef
         /\ node[i][2] = node[j][2] /\ node[i][1] # node[j][1]
         /\ \E k \in DOMAIN latestTx : latestTx[k].txId = node[i][2]

\* C8: no committed entry belongs to an effect with more than one operation;
\* a batch is rejected by its reconciliation only if it holds an effect that
\* no reference matches or that has no operation (so never because of a
\* multi-operation effect); and a thunk that ran to the end committed exactly
\* the single-operation effects of its batch.
C8_MultiOperationDropped ==
    /\ \A i \in DOMAIN latestTx : opCount(Effect(latestTx[i].txId)) <= 1
    /\ Threw => \E k \in DOMAIN last.txEffs :
                    IsOrphan(last.txEffs[k]) \/ opCount(last.txEffs[k]) = 0
    /\ Committed =>
         {latestTx[i].txId : i \in DOMAIN latestTx}
           = {digestOf(last.txEffs[k]) :
                 k \in {n \in DOMAIN last.txEffs : opCount(last.txEffs[n]) = 1}}

\* A Loaded state whose batch held a multi-operation effect beside another.
C8_Witness ==
    /\ Committed /\ Len(latestTx) >= 1
    /\ \E k \in DOMAIN last.txEffs : opCount(last.txEffs[k]) > 1

\* C9: an effect that cannot be classified (a payload with no operation) is
\* excluded and the cycle still ends Loaded: the reconciliation of a batch
\* rejects the thunk only for an effect that no reference matches.
C9_UnclassifiableExcluded ==
    Threw => \E k \in DOMAIN last.txEffs : IsOrphan(last.txEffs[k])

\* C10: a batch holding an effect whose digest is not in the reference list
\* fails the whole cycle: the state is Failed with no entries and no recent
\* addresses, and the thunk has settled with no fetch in flight (no retry).
C10_OrphanedEffectFatal ==
    (~loading /\ \E k \in DOMAIN last.txEffs : IsOrphan(last.txEffs[k])) =>
        /\ last.stage = "effects"
        /\ error = {NotIterableError} \/ error = {NoObjectError}
        /\ latestTx = <<>>
        /\ recentAddresses = <<>>
        /\ pc[last.cycle] = "done"
        /\ request[last.cycle] = <<>>

\* A Failed state whose batch held an orphan beside an effect that alone
\* would have given an entry.
C10_Witness ==
    /\ ~loading /\ error # {} /\ last.stage = "effects"
    /\ \E k \in DOMAIN last.txEffs : IsOrphan(last.txEffs[k])
    /\ \E k \in DOMAIN last.txEffs :
           ~IsOrphan(last.txEffs[k]) /\ opCount(last.txEffs[k]) = 1

(***************************************************************************)
(* Failures and the empty address, checked under PipeSpec.                 *)
(***************************************************************************)

\* The thunk has settled after its fetch f was rejected.
FetchFailed(f) == pc[1] = "done" /\ last.failed = f

\* C11: when the digest-list fetch or the effects batch fetch is rejected the
\* cycle ends Failed: loading is false, the error is the descriptor of the
\* failure with its code, name and message, and entries and recentAddresses
\* are empty, so nothing built so far is committed.
C11_FetchFailureEndsFailed ==
    (FetchFailed("digests") \/ FetchFailed("effects")) =>
        /\ loading = FALSE
        /\ error = {NetworkError}
        /\ \A e \in error : e.code # None /\ e.name # None /\ e.message # None
        /\ latestTx = <<>>
        /\ recentAddresses = <<>>

\* The effects fetch was rejected after a list of three references came in.
C11_Witness ==
    /\ FetchFailed("effects") /\ error # {}
    /\ Len(last.transactions) = 3 /\ last.issued = {"digests", "effects"}

\* C12: a rejected object fetch is fatal like a rejected digest or effects
\* fetch: the cycle ends Failed with the descriptor of the failure.
C12_ObjectFetchFailureFatal ==
    FetchFailed("objects") =>
        /\ loading = FALSE
        /\ error # {}
        /\ latestTx = <<>>
        /\ recentAddresses = <<>>

\* C13: with an empty address the thunk issues no fetch at all, and once it
\* has settled the state is Loaded with no entries, no recent addresses and
\* no error.
C13_EmptyAddressNoFetch ==
    address = "" =>
        /\ \A c \in Cycles : issued[c] = {} /\ awaiting[c] = {}
        /\ pc[1] = "done" =>
              /\ last.stage = "address" /\ last.issued = {}
              /\ loading = FALSE /\ error = {}
              /\ latestTx = <<>> /\ recentAddresses = <<>>

\* The thunk settled for an empty address although the node lists
\* transactions.
C13_Witness ==
    /\ address = "" /\ pc[1] = "done" /\ ~loading
    /\ Len(node) = 3 /\ \A i \in DOMAIN node : node[i] # NullRef

(***************************************************************************)
(* The committed payload, checked under KindsSpec.                         *)
(***************************************************************************)

\* The addresses the entries name: every sender and every recipient, empty
\* and absent ones left out.
AddressesOf(entries) ==
    ({entries[i].from : i \in DOMAIN entries}
        \cup {entries[i].to[1] : i \in {k \in DOMAIN entries : entries[k].to # None}})
    \ {""}

\* The items of a list, as a set / the list repeats no item.
Items(list) == {list[i] : i \in DOMAIN list}
NoRepeat(list) == \A i, j \in DOMAIN list : i # j => list[i] # list[j]

\* C14: once a cycle has ended Loaded, recentAddresses holds exactly the
\* senders and recipients of the committed entries, each once, with no empty
\* or absent value and no address that no committed entry names.
C14_RecentAddressesExact ==
    (pc[1] = "done" /\ error = {}) =>
        /\ Items(recentAddresses) = AddressesOf(latestTx)
        /\ NoRepeat(recentAddresses)
        /\ "" \notin Items(recentAddresses)

\* Two entries that name the same two addresses, one without a recipient.
C14_Witness ==
    /\ Committed /\ Len(latestTx) >= 2 /\ Len(recentAddresses) = 2
    /\ \E i \in DOMAIN latestTx : latestTx[i].to = None
    /\ \E i \in DOMAIN latestTx : latestTx[i].to # None

\* Entry i of the reconciled list has no object among those returned.
Unmatched(i) ==
    \/ last.resp[i].objectId = None
    \/ last.txObjects = None
    \/ \A k \in DOMAIN last.txObjects[1] :
           last.txObjects[1][k].reference.objectId # last.resp[i].objectId[1]

\* C15: enrichment removes no entry, and an entry with no objectId, or whose
\* objectId matches none of the returned objects, is committed exactly as
\* the reconciliation built it.
C15_EnrichmentFrame ==
    Committed =>
        /\ Len(latestTx) = Len(last.resp)
        /\ \A i \in DOMAIN last.resp : Unmatched(i) => latestTx[i] = last.resp[i]

\* One commit with an entry without objectId, an entry whose object was not
\* returned, and an entry that was enriched.
C15_Witness ==
    /\ Committed /\ last.txObjects # None
    /\ \E i \in DOMAIN last.resp : last.resp[i].objectId = None
    /\ \E i \in DOMAIN last.resp : last.resp[i].objectId # None /\ Unmatched(i)
    /\ \E i \in DOMAIN last.resp : latestTx[i] # last.resp[i]

\* The single operation of the transaction with digest d.
OperationOf(d) == getTransactions(Effect(d).certificate)[1]

\* C16: only a Call entry takes its objectId from the objects the effect
\* created: a TransferObject entry carries the id of the transferred object
\* and a TransferSui entry has no objectId, whatever its effect created.
C16_CreatedObjectOnlyOnCall ==
    Committed =>
        \A i \in DOMAIN latestTx :
            /\ latestTx[i].kind = "TransferSui" => latestTx[i].objectId = None
            /\ latestTx[i].kind = "TransferObject" =>
                   latestTx[i].objectId = OperationOf(latestTx[i].txId).objectId

\* The entry was built from a Move call without recipient whose effect
\* created no object.
BareCall(entry) ==
    /\ OperationOf(entry.txId).kind = "Call"
    /\ OperationOf(entry.txId).recipient = None
    /\ getCreatedObjectID(Effect(entry.txId).effects) = None

\* C17: the entry of a Move call with no recipient and no created object has
\* no objectId, no amount and no recipient, is not enriched, and its card
\* shows the gas used (which is 0 when the gas used is 0).
C17_BareCallShowsGas ==
    Committed =>
        \A i \in DOMAIN latestTx :
            BareCall(latestTx[i]) =>
                /\ latestTx[i].kind = "Call"
                /\ latestTx[i].objectId = None
                /\ latestTx[i].amount = None
                /\ latestTx[i].to = None
                /\ latestTx[i].balance = None
                /\ transferType(latestTx[i]) = "Call"
                /\ transferAmount(latestTx[i])
                       = getTotalGasUsed(Effect(latestTx[i].txId))

\* Such an entry committed next to an enriched one, objects having come back.
C17_Witness ==
    /\ Committed /\ last.txObjects # None /\ Len(last.txObjects[1]) = 2
    /\ \E i \in DOMAIN latestTx : BareCall(latestTx[i])
    /\ \E i \in DOMAIN latestTx : latestTx[i].balance # None

(***************************************************************************)
(* The order of the fetches, checked under PipeSpec.                       *)
(***************************************************************************)

\* The fetches of instance c that have settled.
settled(c) == issued[c] \ awaiting[c]

\* C18: within one cycle at most one fetch is outstanding; the effects fetch
\* is issued only once the digest list has arrived, and the object fetch only
\* once the effects have arrived and the whole batch has been reconciled.
C18_StagesSequential ==
    \A c \in Cycles :
        /\ Cardinality(awaiting[c]) <= 1
        /\ awaiting[c] \subseteq issued[c]
        /\ "effects" \in issued[c] =>
               /\ "digests" \in settled(c)
               /\ transactions[c] = SelectSeq(node, LAMBDA tx : tx # NullRef)
        /\ "objects" \in issued[c] =>
               /\ "effects" \in settled(c)
               /\ reconcile(txEffs[c], transactions[c], address)
                      = [tag |-> "value", value |-> resp[c]]

\* The object fetch is the one outstanding fetch, the other two have settled.
C18_Witness ==
    /\ pc[1] = "FetchingObjects" /\ awaiting[1] = {"objects"}
    /\ settled(1) = {"digests", "effects"} /\ Len(resp[1]) = 2

(***************************************************************************)
(* The order of the committed entries, checked under KindsSpec.            *)
(***************************************************************************)

\* The permutations of 1..n, and a batch rearranged by one.
Perms(n) == {f \in [1..n -> 1..n] : \A i, j \in 1..n : i # j => f[i] # f[j]}
Rearranged(batch, f) == [i \in DOMAIN batch |-> batch[f[i]]]
DigestsIn(entries) == [i \in DOMAIN entries |-> entries[i].txId]

\* C19: the order of the committed entries does not depend on the order in
\* which the effects came back: reconciling any rearrangement of the batch
\* against the same reference list gives the committed digests in the
\* committed order.
C19_OrderIndependentOfBatch ==
    Committed =>
        \A f \in Perms(Len(last.txEffs)) :
            LET r == reconcile(Rearranged(last.txEffs, f), last.transactions, address)
            IN /\ r.tag = "value"
               /\ DigestsIn(r.value) = DigestsIn(latestTx)

\* Three entries committed from a batch that came back in another order.
C19_Witness ==
    /\ Committed /\ Len(latestTx) = 3 /\ Len(last.txEffs) = 3
    /\ DigestsIn(latestTx) # [i \in DOMAIN last.txEffs |-> digestOf(last.txEffs[i])]

(***************************************************************************)
(* The consistency of the slice in every state, checked under Spec.        *)
(***************************************************************************)

\* C20: in every reachable state recentAddresses names exactly the addresses
\* of the entries in that state, each once, and is empty when there are no
\* entries: entries and recentAddresses always stem from the same reducer
\* run.
C20_RecentMatchesEntries ==
    /\ Items(recentAddresses) = AddressesOf(latestTx)
    /\ NoRepeat(recentAddresses)
    /\ latestTx = <<>> => recentAddresses = <<>>

\* The second of two settled instances committed entries.
C20_Witness ==
    /\ pc[1] = "done" /\ pc[2] = "done" /\ last.cycle = 2
    /\ ~loading /\ latestTx # <<>> /\ Len(recentAddresses) = 2

(***************************************************************************)
(* Properties of the Coin methods, checked under CoinSpec.                 *)
(***************************************************************************)

Formatted(mode) == coin.op = "getFormatData" /\ coin.mode = mode

\* The denomination of a coin type: 10^9 for 0x2::sui::SUI, otherwise 1.
DenominationOf(coinArgType) ==
    IF coinArgType = SUI_TYPE_ARG THEN SuiDenomination ELSE 1

\* balance / denomination < 1e-8.  No denomination exceeds 10^9, so only a
\* balance below 10 can be that small.
Negligible(balance, denomination) ==
    balance < 10 /\ balance * InverseOfTiny < denomination

\* The result of a Loose-mode call, with `placeholder` as the forced value.
LooseFormatWith(placeholder) ==
    LET B == coin.balance
        D == DenominationOf(coin.coinArgType)
        r == coin.result
    IN /\ r.formatOptions =
            IF B < D THEN [maximumFractionDigits |-> Some(8), notation |-> None]
            ELSE [maximumFractionDigits |-> Some(3), notation |-> Some("compact")]
       /\ r.forcedFormatValue =
            IF Negligible(B, D) THEN Some(placeholder) ELSE None
       /\ LET g == D \div r.value.den
          IN g * r.value.num = B /\ g * r.value.den = D
       /\ (coin.coinArgType = SUI_TYPE_ARG /\ B = 500000000) =>
              /\ r.value = [num |-> 1, den |-> 2]
              /\ r.formatOptions.maximumFractionDigits = Some(8)
              /\ r.symbol = "SUI"

\* The characters of the placeholder written with two en dashes.
DashPlaceholder == <<8211, 32, 8211>>

WellFormed(text) ==
    /\ \E i \in DOMAIN text : IsDigit(text[i])
    /\ \A i \in DOMAIN text : text[i] = "-" => i = 1
    /\ Cardinality({i \in DOMAIN text : text[i] = "."}) <= 1

\* num / den rounded to the nearest integer, a half going away from zero.
RoundHalfAway(num, den) ==
    IF num >= 0 THEN (2 * num + den) \div (2 * den)
    ELSE -((2 * (-num) + den) \div (2 * den))

\* C22: fromInput returns the decimal value of the text times the
\* denomination, rounded to the nearest integer with a half going away from
\* zero, for negative values too (-2.5 gives -3, 2.5 gives 3).
C22_RoundHalfAwayFromZero ==
    (coin.op = "fromInput" /\ WellFormed(coin.inputValue)) =>
        LET value == parseFloat(coin.inputValue)
        IN coin.result =
             [tag |-> "value",
              value |-> RoundHalfAway(value.num * coin.denomination, value.den)]

\* C23: in Accurate mode the result has 20 maximum fractional digits, no
\* compact notation and no placeholder, whatever the balance and the coin
\* type.
C23_AccurateFormat ==
    Formatted("accurate") =>
        /\ coin.result.formatOptions =
              [maximumFractionDigits |-> Some(20), notation |-> None]
        /\ coin.result.forcedFormatValue = None

\* A zero balance of a coin type without denomination, in Accurate mode.
C23_Witness ==
    /\ Formatted("accurate") /\ coin.balance = 0
    /\ coin.coinArgType # SUI_TYPE_ARG /\ coin.result.value.num = 0

\* The decimal digits of a natural number.
DigitChar(n) ==
    CASE n = 0 -> "0" [] n = 1 -> "1" [] n = 2 -> "2" [] n = 3 -> "3"
      [] n = 4 -> "4" [] n = 5 -> "5" [] n = 6 -> "6" [] n = 7 -> "7"
      [] n = 8 -> "8" [] n = 9 -> "9"
RECURSIVE DigitsOf(_)
DigitsOf(n) ==
    IF n < 10 THEN <<DigitChar(n)>>
    ELSE Append(DigitsOf(n \div 10), DigitChar(n % 10))

\* getBalance was called on an object that is / is not a coin.
BalanceOfCoin == coin.op = "getBalance" /\ coin.data.type.wrapper = "0x2::coin::Coin"
BalanceOfOther == coin.op = "getBalance" /\ coin.data.type.wrapper # "0x2::coin::Coin"

\* On a coin the result is the stored balance, digit for digit.
ExactBalance ==
    BalanceOfCoin =>
        /\ coin.result.tag = "value" /\ coin.result.value # None
        /\ DigitsOf(coin.result.value[1]) = coin.data.fields.balance[1]

\* C24 (as stated): getBalance on an object that is not a coin fails with an
\* error and returns nothing; on a coin it returns the stored balance as an
\* exact integer.
C24_NonCoinFails ==
    /\ BalanceOfOther => coin.result.tag = "throw"
    /\ ExactBalance

\* C24 (amended): getBalance on an object that is not a coin raises nothing
\* and returns undefined, whatever fields the object has; on a coin it
\* returns the stored balance as an exact integer.
C24_NonCoinUndefined ==
    /\ BalanceOfOther => coin.result = [tag |-> "value", value |-> None]
    /\ ExactBalance

\* getBalance was called on an object that has a balance but is not a coin.
C24_Witness ==
    /\ BalanceOfOther /\ coin.data.fields.balance # None
    /\ coin.result.value = None

(***************************************************************************)
(* The object fetch and the enrichment, checked under KindsSpec.           *)
(***************************************************************************)

\* The object ids the entries reference.
ReferencedIds(entries) ==
    {entries[i].objectId[1] :
        i \in {k \in DOMAIN entries : entries[k].objectId # None}}

\* The one request lists every referenced id once and no other id.
ExactRequest(requests, entries) ==
    /\ Len(requests) = 1
    /\ NoRepeat(requests[1])
    /\ Items(requests[1]) = ReferencedIds(entries)

\* C25: a cycle that reaches the enrichment issues exactly one object fetch,
\* whose request lists each object id the reconciled entries reference
\* exactly once and no other id; a cycle that does not reach it issues none.
C25_OneObjectFetch ==
    /\ \A c \in Cycles :
          IF pc[c] = "FetchingObjects"
          THEN ExactRequest(objectRequests[c], resp[c])
          ELSE objectRequests[c] = <<>>
    /\ pc[1] = "done" =>
          IF last.stage = "objects"
          THEN ExactRequest(last.objectRequests, last.resp)
          ELSE last.objectRequests = <<>>

\* Three entries, two of which reference the same object and one none.
C25_Witness ==
    /\ pc[1] = "FetchingObjects" /\ Len(resp[1]) = 3
    /\ Len(objectRequests[1][1]) = 1
    /\ \E i \in DOMAIN resp[1] : resp[1][i].objectId = None

\* Entry e with its enrichment fields blank.
Unenriched(e) ==
    [e EXCEPT !.description = None, !.name = None, !.url = None,
              !.balance = None, !.coinSymbol = None]

\* C26: enrichment keeps the entries in their order and changes nothing but
\* description, name, url, balance and coinSymbol (seq, txId, status, kind,
\* from, to, amount, txGas and objectId stay), so the committed list is
\* still sorted by seq, descending.
C26_EnrichmentKeepsCore ==
    Committed =>
        /\ Len(latestTx) = Len(last.resp)
        /\ \A i \in DOMAIN last.resp :
              /\ Unenriched(latestTx[i]) = last.resp[i]
              /\ latestTx[i].seq = last.resp[i].seq
              /\ latestTx[i].txId = last.resp[i].txId
              /\ latestTx[i].amount = last.resp[i].amount
              /\ latestTx[i].objectId = last.resp[i].objectId
        /\ \A i, j \in DOMAIN latestTx : i < j => latestTx[i].seq > latestTx[j].seq

\* Two entries were enriched, one with a balance.
C26_Witness ==
    /\ Committed /\ Len(latestTx) >= 2
    /\ Cardinality({i \in DOMAIN latestTx : latestTx[i] # last.resp[i]}) = 2
    /\ \E i \in DOMAIN latestTx : latestTx[i].balance # None

\* The digests of a reference list.
ListedDigests(refs) == {refs[i][2] : i \in DOMAIN refs}

\* C29: every committed entry's pair of seq and txId is a reference of the
\* list fetched in the same cycle, and there are at most as many entries as
\* distinct digests in that list.
C29_EntriesFromReferences ==
    Committed =>
        /\ \A i \in DOMAIN latestTx :
              <<latestTx[i].seq, latestTx[i].txId>> \in Items(last.transactions)
        /\ Len(latestTx) <= Cardinality(ListedDigests(last.transactions))

\* Three references to two digests, one entry for each digest.
C29_Witness ==
    /\ Committed /\ Len(last.transactions) = 3
    /\ Cardinality(ListedDigests(last.transactions)) = 2
    /\ Len(latestTx) = 2

(***************************************************************************)
(* The empty reference list, checked under PipeSpec.                       *)
(***************************************************************************)

\* The list the node serves has no reference left once the nulls are gone.
NoReference == \A i \in DOMAIN node : node[i] = NullRef

\* C30: with a non-empty address and an empty reference list the cycle
\* issues the digest fetch only, neither the effects nor the object fetch,
\* and, unless that fetch is rejected, ends Loaded with no entries and no
\* recent addresses.
C30_EmptyListNoFurtherFetch ==
    (address # "" /\ NoReference) =>
        /\ \A c \in Cycles : issued[c] \subseteq {"digests"}
        /\ (pc[1] = "done" /\ last.failed = "") =>
              /\ last.issued = {"digests"}
              /\ loading = FALSE /\ error = {}
              /\ latestTx = <<>> /\ recentAddresses = <<>>

\* The cycle settled on the empty list the node answered.
C30_Witness ==
    /\ address # "" /\ node = <<>> /\ pc[1] = "done"
    /\ last.failed = "" /\ ~loading /\ last.issued = {"digests"}

(***************************************************************************)
(* Instances in flight, checked under Spec.                                *)
(***************************************************************************)

\* Instance c has been dispatched and has not settled.
InFlight(c) == pc[c] \notin {"idle", "done"}

\* C27: loading is true whenever some instance is in flight, also when a
\* second instance was dispatched before the first settled.
C27_LoadingWhileInFlight == (\E c \in Cycles : InFlight(c)) => loading = TRUE

(***************************************************************************)
(* Termination, checked under FairSpec.                                    *)
(***************************************************************************)

\* An instance in flight either awaits a fetch it issued or is returning.
WaitsOnIssued(c) ==
    InFlight(c) =>
        \/ pc[c] = "Returning" /\ awaiting[c] = {}
        \/ /\ awaiting[c] = {CASE pc[c] = "FetchingDigests" -> "digests"
                               [] pc[c] = "FetchingEffects" -> "effects"
                               [] pc[c] = "FetchingObjects" -> "objects"
                               [] OTHER -> "none"}
           /\ awaiting[c] \subseteq issued[c]

\* C28: when every issued fetch is eventually answered, every dispatched
\* instance settles (from some point on no instance is in flight), and the
\* step that settles an instance leaves loading false, so a state in which
\* an instance is in flight is followed by one with loading false; an
\* instance in flight waits only on a fetch it issued.
C28_EveryCycleTerminates ==
    /\ [](\A c \in Cycles : WaitsOnIssued(c))
    /\ [][\A c \in Cycles :
            (InFlight(c) /\ pc'[c] = "done") => loading' = FALSE]_vars
    /\ <>[](\A c \in Cycles : ~InFlight(c))

\* Both instances settled, the one dispatched first settling last.
C28_Witness ==
    /\ \A c \in Cycles : pc[c] = "done"
    /\ loading = FALSE /\ last.cycle = 1 /\ last.stage = "objects"

(***************************************************************************)
(* Failed transactions, checked under StatusSpec.                          *)
(***************************************************************************)

\* The effect ran one operation and its execution failed.
FailedSingle(txEff) ==
    opCount(txEff) = 1 /\ getExecutionStatusType(txEff) = "failure"

\* The committed entries that carry the digest of the effect.
EntriesOf(txEff) ==
    {i \in DOMAIN latestTx : latestTx[i].txId = digestOf(txEff)}

C32_HeaderForEveryKind ==
    (receipt.op = "render" /\ receipt.txnItem # None) =>
        receipt.result.tag # "throw"

====
